---- MODULE Spec2Model ----
(***************************************************************************)
(* Model of appointments/services.py: the expiration computation over a    *)
(* doctor's weekly working hours, request creation, and the acceptance of  *)
(* an appointment request.                                                 *)
(*                                                                         *)
(* A datetime is a record [date, min, tz]: date is the day ordinal (day 0  *)
(* is 1970-01-01), min the wall-clock minute of the day, tz the attached   *)
(* zone ("naive" when the value carries no tzinfo).  A time is a minute of *)
(* the day.  An optional value is a set with at most one element.          *)
(***************************************************************************)
EXTENDS Integers, Sequences, FiniteSets, TLC

VARIABLES doctor_schedule, op, args, ret, requests,
          row, pc, frame, result, hist

vars == <<doctor_schedule, op, args, ret, requests, row, pc, frame, result, hist>>

createVars == <<doctor_schedule, op, args, ret, requests>>
acceptVars == <<row, pc, frame, result, hist>>

None == {}
Some(x) == {x}
Val(s) == CHOOSE x \in s : TRUE

\* ---------------------------------------------------------------- bounds
MaxDate == 3
MaxWorkDays == 3
MaxTime == 2
MaxAttempts == 3

\* ------------------------------------------------------ program constants
DaysInWeek == 7
InHoursGrace == 20
BreakGrace == 15
RolloverGrace == 15

\* ------------------------------------------------------------ input sets
Zones == {"UTC", "KST"}
TimePoints == {480, 540, 720, 750, 780, 1020, 1430}
Dates == 0..MaxDate

weekday_mapping ==
    <<"Monday", "Tuesday", "Wednesday", "Thursday", "Friday", "Saturday", "Sunday">>

DayNames == {weekday_mapping[i] : i \in 1..DaysInWeek}

\* WorkingHour rows of one doctor for one weekday (day_of_week is the key).
WorkingHourShapes ==
    { [start_time |-> 540, end_time |-> 1020,
       break_start_time |-> Some(720), break_end_time |-> Some(780)],
      [start_time |-> 780, end_time |-> 1430,
       break_start_time |-> None, break_end_time |-> None],
      [start_time |-> 720, end_time |-> 1020,
       break_start_time |-> Some(720), break_end_time |-> Some(750)] }

Schedules ==
    { s \in [DayNames -> {None} \cup {Some(w) : w \in WorkingHourShapes}] :
        Cardinality({d \in DayNames : s[d] # None}) <= MaxWorkDays }

AwareDatetimes == [date : Dates, min : TimePoints, tz : Zones]

\* ------------------------------------------------------ datetime library
\* datetime.weekday(): Monday is 0; day 0 (1970-01-01) is a Thursday.
weekday(dt) == (dt.date + 3) % 7

\* datetime.time(): the wall-clock time, without the date.
time(dt) == dt.min

\* datetime + timedelta(minutes=m): wall-clock arithmetic, tzinfo kept.
add_minutes(dt, m) ==
    [date |-> dt.date + ((dt.min + m) \div 1440),
     min  |-> (dt.min + m) % 1440,
     tz   |-> dt.tz]

\* date + timedelta(days=d)
add_days(date, d) == date + d

\* datetime.combine(date, time) with a naive time: the result is naive.
combine(date, t) == [date |-> date, min |-> t, tz |-> "naive"]

\* timezone.make_aware(naive, tz): attaches tz, wall-clock fields unchanged.
make_aware(naive, tz) == [naive EXCEPT !.tz = tz]

utcoffset(tz) == IF tz = "KST" THEN 540 ELSE 0

\* aware datetimes are ordered by their UTC instant
utc_minutes(dt) == dt.date * 1440 + dt.min - utcoffset(dt.tz)

\* WorkingHour.objects.filter(doctor_id=..., day_of_week=name).first()
working_hour_first(schedule, day_name) == schedule[day_name]

\* ------------------------------------------------------------- resolver
is_within_working_hours(current_time, working_hour) ==
    working_hour.start_time <= current_time /\ current_time <= working_hour.end_time

is_during_break_excl(current_time, working_hour) ==
    IF working_hour.break_start_time # None /\ working_hour.break_end_time # None
    THEN Val(working_hour.break_start_time) < current_time
         /\ current_time < Val(working_hour.break_end_time)
    ELSE FALSE

is_during_break(current_time, working_hour) ==
    IF working_hour.break_start_time # None /\ working_hour.break_end_time # None
    THEN Val(working_hour.break_start_time) <= current_time
         /\ current_time <= Val(working_hour.break_end_time)
    ELSE FALSE

starts_after_or_at(next_start_time, request_datetime) ==
    utc_minutes(next_start_time) >= utc_minutes(request_datetime)

\* line 178: next_start_time > request_datetime
starts_after(next_start_time, request_datetime) ==
    utc_minutes(next_start_time) > utc_minutes(request_datetime)

\* the candidate start instant for one days_ahead of the loop
next_start_time_for(request_datetime, working_hour, days_ahead) ==
    make_aware(combine(add_days(request_datetime.date, days_ahead),
                       working_hour.start_time),
               request_datetime.tz)

RECURSIVE find_next_loop(_, _, _)
find_next_loop(request_datetime, schedule, days_ahead) ==
    IF days_ahead >= DaysInWeek THEN None
    ELSE LET next_day_index == (weekday(request_datetime) + days_ahead) % 7
             next_day_name == weekday_mapping[next_day_index + 1]
             next_working_hour == working_hour_first(schedule, next_day_name)
         IN  IF next_working_hour # None
                /\ starts_after(
                     next_start_time_for(request_datetime, Val(next_working_hour), days_ahead),
                     request_datetime)
             THEN Some(add_minutes(
                     next_start_time_for(request_datetime, Val(next_working_hour), days_ahead),
                     RolloverGrace))
             ELSE find_next_loop(request_datetime, schedule, days_ahead + 1)

find_next_working_period_start(request_datetime, schedule) ==
    find_next_loop(request_datetime, schedule, 0)

set_request_expiration_datetime(request_datetime, schedule) ==
    LET current_time == time(request_datetime)
        working_hour_today ==
            working_hour_first(schedule, weekday_mapping[weekday(request_datetime) + 1])
    IN  IF working_hour_today # None
           /\ is_within_working_hours(current_time, Val(working_hour_today))
        THEN IF is_during_break(current_time, Val(working_hour_today))
             THEN Some(add_minutes(
                        combine(request_datetime.date,
                                Val(Val(working_hour_today).break_end_time)),
                        BreakGrace))
             ELSE Some(add_minutes(request_datetime, InHoursGrace))
        ELSE find_next_working_period_start(request_datetime, schedule)

\* ------------------------------------------------------ request creation
NoCall == [preferred_datetime |-> None, request_datetime |-> None]
NoReturn == [error |-> "", value |-> None]

\* lines 46-49, with the endpoints rejected as well
outside_operation_hours_incl(preferred_time, working_hour) ==
    preferred_time <= working_hour.start_time \/ preferred_time >= working_hour.end_time

\* lines 46-49
outside_operation_hours(preferred_time, working_hour) ==
    preferred_time < working_hour.start_time \/ preferred_time > working_hour.end_time

\* lines 55-63
preferred_in_break(preferred_time, working_hour) ==
    /\ working_hour.break_start_time # None
    /\ working_hour.break_end_time # None
    /\ Val(working_hour.break_start_time) <= preferred_time
    /\ preferred_time <= Val(working_hour.break_end_time)

\* The error returned by the checks of lines 42-69, "" when none rejects.
creation_error(preferred_datetime, schedule) ==
    LET doctor_working_hour ==
            working_hour_first(schedule, weekday_mapping[weekday(preferred_datetime) + 1])
        preferred_time_for_day == time(preferred_datetime)
    IN  IF doctor_working_hour = None
        THEN "Doctor is not available at that day"
        ELSE IF outside_operation_hours(preferred_time_for_day, Val(doctor_working_hour))
        THEN "It's not operation hours. Can't make appointment for this time"
        ELSE IF preferred_in_break(preferred_time_for_day, Val(doctor_working_hour))
        THEN "Doctor is having lunch break, can't make appointment for this time"
        ELSE ""

ValidationErrors ==
    { "Doctor is not available at that day",
      "It's not operation hours. Can't make appointment for this time",
      "Doctor is having lunch break, can't make appointment for this time" }

\* create_appointment_request_service(patient_id, doctor_id, preferred_datetime,
\* request_datetime); save_ok is whether appointment_request.save() returns
\* or raises IntegrityError.
CreateAppointmentRequest(preferred_datetime, request_datetime, save_ok) ==
    /\ op = "none"
    /\ op' = "create"
    /\ args' = [preferred_datetime |-> Some(preferred_datetime),
                request_datetime |-> Some(request_datetime)]
    /\ LET err == creation_error(preferred_datetime, doctor_schedule)
           request_expiration_datetime ==
               set_request_expiration_datetime(request_datetime, doctor_schedule)
           appointment_request ==
               [preferred_datetime |-> preferred_datetime,
                request_expiration_datetime |-> request_expiration_datetime]
       IN  IF err # ""
           THEN /\ ret' = [error |-> err, value |-> None]
                /\ requests' = requests
           ELSE IF save_ok
           THEN /\ requests' = requests \cup {appointment_request}
                /\ ret' = [error |-> "", value |-> Some(appointment_request)]
           ELSE /\ requests' = requests
                /\ ret' = [error |-> "Database error", value |-> None]
    /\ UNCHANGED <<doctor_schedule, acceptVars>>

\* a direct call of set_request_expiration_datetime
SetRequestExpiration(request_datetime) ==
    /\ op = "none"
    /\ op' = "set_expiration"
    /\ args' = [preferred_datetime |-> None, request_datetime |-> Some(request_datetime)]
    /\ ret' = [error |-> "",
               value |-> set_request_expiration_datetime(request_datetime, doctor_schedule)]
    /\ UNCHANGED <<doctor_schedule, requests, acceptVars>>

\* a direct call of find_next_working_period_start
FindNextWorkingPeriodStart(request_datetime) ==
    /\ op = "none"
    /\ op' = "find_next"
    /\ args' = [preferred_datetime |-> None, request_datetime |-> Some(request_datetime)]
    /\ ret' = [error |-> "",
               value |-> find_next_working_period_start(request_datetime, doctor_schedule)]
    /\ UNCHANGED <<doctor_schedule, requests, acceptVars>>

\* --------------------------------------------------- request acceptance
Procs == {1, 2}
Instants == 0..MaxTime
RequestIds == {1, 2}     \* the request with id 1 exists, id 2 does not
NewStatuses == {"accepted", "rejected"}

NoFrame == [id |-> 0, new_status |-> "", request_datetime |-> 0, object |-> None,
            before |-> "pending"]

Started == Len(hist) + Cardinality({p \in Procs : pc[p] # "idle"})

is_expired_incl(request_datetime, expiration) == request_datetime >= expiration

\* line 213
is_expired(request_datetime, expiration) == request_datetime > expiration

always_writable(status) == TRUE

\* line 218
not_accepted(status) == status # "accepted"

\* the caller invokes update_appointment_request_status(id, new_status, request_datetime)
Call(p, id, new_status, request_datetime) ==
    /\ pc[p] = "idle"
    /\ Started < MaxAttempts
    /\ pc' = [pc EXCEPT ![p] = "get"]
    /\ frame' = [frame EXCEPT ![p] =
                    [id |-> id, new_status |-> new_status,
                     request_datetime |-> request_datetime,
                     object |-> None, before |-> row.status]]
    /\ result' = [result EXCEPT ![p] = ""]
    /\ UNCHANGED <<row, hist, createVars>>

\* line 207: AppointmentRequest.objects.get(id=...) loads the row into an object
Get(p) ==
    /\ pc[p] = "get"
    /\ IF frame[p].id = 1
       THEN /\ frame' = [frame EXCEPT ![p].object = Some(row)]
            /\ pc' = [pc EXCEPT ![p] = "check"]
            /\ result' = result
       ELSE /\ result' = [result EXCEPT ![p] = "not_found"]
            /\ pc' = [pc EXCEPT ![p] = "done"]
            /\ frame' = frame
    /\ UNCHANGED <<row, hist, createVars>>

\* lines 212-219, 226-227: the two tests on the loaded object
Check(p) ==
    /\ pc[p] = "check"
    /\ LET appointment_request == Val(frame[p].object)
       IN  IF is_expired(frame[p].request_datetime,
                         appointment_request.request_expiration_datetime)
           THEN /\ result' = [result EXCEPT ![p] = "expired"]
                /\ pc' = [pc EXCEPT ![p] = "done"]
           ELSE IF not_accepted(appointment_request.status)
           THEN /\ result' = result
                /\ pc' = [pc EXCEPT ![p] = "save"]
           ELSE /\ result' = [result EXCEPT ![p] = "already_accepted"]
                /\ pc' = [pc EXCEPT ![p] = "done"]
    /\ UNCHANGED <<row, frame, hist, createVars>>

\* lines 220-225: the object's fields are written back to the row
Save(p) ==
    /\ pc[p] = "save"
    /\ row' = [Val(frame[p].object) EXCEPT !.status = frame[p].new_status]
    /\ result' = [result EXCEPT ![p] = "ok"]
    /\ pc' = [pc EXCEPT ![p] = "done"]
    /\ UNCHANGED <<frame, hist, createVars>>

\* the call returns its result to the caller
Return(p) ==
    /\ pc[p] = "done"
    /\ hist' = Append(hist, [id |-> frame[p].id,
                             new_status |-> frame[p].new_status,
                             request_datetime |-> frame[p].request_datetime,
                             result |-> result[p],
                             before |-> frame[p].before,
                             after |-> row.status])
    /\ pc' = [pc EXCEPT ![p] = "idle"]
    /\ UNCHANGED <<row, frame, result, createVars>>

\* ------------------------------------------------------- specifications
InitAcceptIdle ==
    /\ pc = [p \in Procs |-> "idle"]
    /\ frame = [p \in Procs |-> NoFrame]
    /\ result = [p \in Procs |-> ""]
    /\ hist = << >>

InitCreateIdle ==
    /\ op = "none"
    /\ args = NoCall
    /\ ret = NoReturn
    /\ requests = {}

\* request creation and the expiration computation over every schedule
InitCreate ==
    /\ doctor_schedule \in Schedules
    /\ InitCreateIdle
    /\ row = [status |-> "pending", request_expiration_datetime |-> 0]
    /\ InitAcceptIdle

NextCreate ==
    \/ /\ op = "none"
       /\ \E request_datetime \in AwareDatetimes, d \in Dates, t \in TimePoints,
             save_ok \in BOOLEAN :
            CreateAppointmentRequest([date |-> d, min |-> t, tz |-> request_datetime.tz],
                                     request_datetime, save_ok)
    \/ /\ op = "none"
       /\ \E request_datetime \in AwareDatetimes : SetRequestExpiration(request_datetime)
    \/ /\ op = "none"
       /\ \E request_datetime \in AwareDatetimes : FindNextWorkingPeriodStart(request_datetime)

SpecCreate == InitCreate /\ [][NextCreate]_vars

\* acceptance of one stored pending request
InitAccept ==
    /\ doctor_schedule = [d \in DayNames |-> None]
    /\ InitCreateIdle
    /\ \E e \in Instants : row = [status |-> "pending", request_expiration_datetime |-> e]
    /\ InitAcceptIdle

\* calls may overlap: each step of a call interleaves with the other call's steps
Next ==
    \/ \E p \in Procs, id \in RequestIds, ns \in NewStatuses, t \in Instants :
         Call(p, id, ns, t)
    \/ \E p \in Procs : Get(p)
    \/ \E p \in Procs : Check(p)
    \/ \E p \in Procs : Save(p)
    \/ \E p \in Procs : Return(p)

Spec == InitAccept /\ [][Next]_vars

\* calls one after the other: a call starts only when no other call is running
NextSeq ==
    \/ \E p \in Procs, id \in RequestIds, ns \in NewStatuses, t \in Instants :
         /\ \A q \in Procs : pc[q] = "idle"
         /\ Call(p, id, ns, t)
    \/ \E p \in Procs : Get(p)
    \/ \E p \in Procs : Check(p)
    \/ \E p \in Procs : Save(p)
    \/ \E p \in Procs : Return(p)

SpecSeq == InitAccept /\ [][NextSeq]_vars

\* ------------------------------------------------------------ properties
TheRequest == Val(args.request_datetime)
ThePreferred == Val(args.preferred_datetime)
RecordOn(dt) == doctor_schedule[weekday_mapping[weekday(dt) + 1]]
HasBreak(w) == w.break_start_time # None /\ w.break_end_time # None
InBreak(t, w) ==
    HasBreak(w) /\ Val(w.break_start_time) <= t /\ t <= Val(w.break_end_time)
InHours(t, w) == w.start_time <= t /\ t <= w.end_time
Expiry == row.request_expiration_datetime

\* the two calls of process 1 and 2 both started on the pending, unexpired
\* request 1 as acceptances and both have finished
BothAttemptsDone ==
    \A p \in Procs :
        /\ pc[p] = "done"
        /\ frame[p].id = 1
        /\ frame[p].new_status = "accepted"
        /\ frame[p].before = "pending"
        /\ frame[p].request_datetime <= Expiry

\* C1: two acceptance attempts that both start on the same pending, unexpired
\* request end with exactly one success and one 'already accepted' error.
C1_ExactlyOneWins ==
    BothAttemptsDone =>
        \E p \in Procs : \E q \in Procs \ {p} :
            result[p] = "ok" /\ result[q] = "already_accepted"

\* C2: find_next_working_period_start returns None if and only if the doctor
\* has no working-hour record on any weekday.
C2_AbsentIffNoRecords ==
    op = "find_next" =>
        (ret.value = None <=> \A d \in DayNames : doctor_schedule[d] = None)

\* C3: every instant returned by set_request_expiration_datetime or by
\* find_next_working_period_start carries the zone of the reference instant.
C3_ZonePreserved ==
    (op \in {"set_expiration", "find_next"} /\ ret.value # None) =>
        Val(ret.value).tz = TheRequest.tz

\* C4: with start <= t <= end on the reference's weekday, the expiration is
\* break end on the reference date plus 15 minutes (wall clock) when
\* breakStart <= t <= breakEnd, and the reference instant plus 20 minutes otherwise.
C4_InHoursExpiration ==
    (op = "set_expiration" /\ RecordOn(TheRequest) # None
        /\ InHours(TheRequest.min, Val(RecordOn(TheRequest)))) =>
        LET r == TheRequest
            w == Val(RecordOn(r))
        IN  /\ ret.value # None
            /\ IF InBreak(r.min, w)
               THEN /\ Val(ret.value).date = r.date + ((Val(w.break_end_time) + 15) \div 1440)
                    /\ Val(ret.value).min = (Val(w.break_end_time) + 15) % 1440
               ELSE Val(ret.value) = [date |-> r.date + ((r.min + 20) \div 1440),
                                      min |-> (r.min + 20) % 1440,
                                      tz |-> r.tz]

C4_Witness ==
    /\ op = "set_expiration"
    /\ RecordOn(TheRequest) # None
    /\ TheRequest.min = Val(RecordOn(TheRequest)).start_time
    /\ InBreak(TheRequest.min, Val(RecordOn(TheRequest)))
    /\ ret.value # None

\* offset k of the week scan has a record whose start on date + k is strictly
\* later (wall clock, same zone) than the reference r
IsCandidate(r, k) ==
    LET w == doctor_schedule[weekday_mapping[((weekday(r) + k) % 7) + 1]]
    IN  /\ w # None
        /\ \/ k > 0
           \/ Val(w).start_time > r.min

StartAt(r, k) ==
    LET w == doctor_schedule[weekday_mapping[((weekday(r) + k) % 7) + 1]]
    IN  [date |-> r.date + k, min |-> Val(w).start_time, tz |-> r.tz]

OutsideHours(r) ==
    \/ RecordOn(r) = None
    \/ r.min < Val(RecordOn(r)).start_time
    \/ r.min > Val(RecordOn(r)).end_time

\* C5: outside working hours, a returned expiration is S + 15 minutes where S
\* is the start at the first offset 0..6 whose record starts strictly after the
\* reference; the search never settles on a start at or before the reference.
C5_RolloverExpiration ==
    ( /\ \/ op = "find_next"
         \/ op = "set_expiration" /\ OutsideHours(TheRequest)
      /\ ret.value # None ) =>
        \E k \in 0..6 :
            /\ IsCandidate(TheRequest, k)
            /\ \A j \in 0..(k - 1) : ~IsCandidate(TheRequest, j)
            /\ Val(ret.value) =
                 [date |-> StartAt(TheRequest, k).date
                             + ((StartAt(TheRequest, k).min + 15) \div 1440),
                  min |-> (StartAt(TheRequest, k).min + 15) % 1440,
                  tz |-> TheRequest.tz]
            /\ \/ StartAt(TheRequest, k).date > TheRequest.date
               \/ /\ StartAt(TheRequest, k).date = TheRequest.date
                  /\ StartAt(TheRequest, k).min > TheRequest.min

C5_Witness ==
    /\ op = "set_expiration"
    /\ RecordOn(TheRequest) # None
    /\ TheRequest.min > Val(RecordOn(TheRequest)).end_time
    /\ ret.value # None
    /\ \E k \in 1..6 :
          /\ weekday(TheRequest) + k >= 7
          /\ Val(ret.value).date = TheRequest.date + k

\* C6: an attempt after the expiration returns 'expired' and leaves the status
\* as it was; an attempt at or before it is not rejected as expired; after an
\* 'expired' rejection no attempt at the same or a later instant succeeds.
C6_ExpiredRejection ==
    \A i \in 1..Len(hist) :
        hist[i].id = 1 =>
            /\ hist[i].request_datetime > Expiry =>
                  (hist[i].result = "expired" /\ hist[i].after = hist[i].before)
            /\ hist[i].request_datetime <= Expiry => hist[i].result # "expired"
            /\ \A j \in (i + 1)..Len(hist) :
                  ( /\ hist[i].result = "expired"
                    /\ hist[j].id = 1
                    /\ hist[j].request_datetime >= hist[i].request_datetime ) =>
                      hist[j].result # "ok"

C6_Witness ==
    \E i \in 1..Len(hist) : \E j \in (i + 1)..Len(hist) :
        /\ hist[i].result = "expired"
        /\ hist[i].before = "pending"
        /\ hist[j].id = 1
        /\ hist[j].request_datetime >= hist[i].request_datetime
        /\ hist[j].result = "expired"

\* C7: every successful call leaves the status accepted, and a call on an
\* accepted request leaves it accepted.
C7_OnlyPendingToAccepted ==
    \A i \in 1..Len(hist) :
        /\ hist[i].result = "ok" => hist[i].after = "accepted"
        /\ hist[i].before = "accepted" => hist[i].after = "accepted"

FirstAccepted(i) ==
    /\ hist[i].id = 1
    /\ hist[i].new_status = "accepted"
    /\ hist[i].result = "ok"
    /\ hist[i + 1].id = 1

\* C8 (as stated): after a successful acceptance the next attempt returns
\* 'already accepted' whatever its instant.
C8_SecondAlreadyAccepted ==
    \A i \in 1..(Len(hist) - 1) :
        FirstAccepted(i) => hist[i + 1].result = "already_accepted"

\* C8 (amended): after a successful acceptance the next attempt returns
\* 'expired' when its instant is after the expiration and 'already accepted'
\* otherwise.
C8_SecondRejected ==
    \A i \in 1..(Len(hist) - 1) :
        FirstAccepted(i) =>
            hist[i + 1].result =
                IF hist[i + 1].request_datetime > Expiry
                THEN "expired" ELSE "already_accepted"

C8_Witness ==
    \E i \in 1..(Len(hist) - 1) :
        /\ FirstAccepted(i)
        /\ hist[i + 1].request_datetime <= Expiry
        /\ hist[i + 1].result = "already_accepted"

\* C9: creation returns an error and stores nothing when the preferred weekday
\* has no record, the preferred time is before start or after end, or it lies in
\* the break (endpoints included); a preferred time equal to start or end and
\* outside the break passes these checks.
C9_CreationRejects ==
    op = "create" =>
        LET t == ThePreferred.min
            w == RecordOn(ThePreferred)
        IN  /\ ( \/ w = None
                 \/ t < Val(w).start_time
                 \/ t > Val(w).end_time
                 \/ InBreak(t, Val(w)) ) =>
                   (ret.error # "" /\ ret.value = None /\ requests = {})
            /\ ( /\ w # None
                 /\ t \in {Val(w).start_time, Val(w).end_time}
                 /\ ~InBreak(t, Val(w)) ) =>
                   ret.error \notin ValidationErrors

C9_Witness ==
    /\ op = "create"
    /\ RecordOn(ThePreferred) # None
    /\ ThePreferred.min = Val(RecordOn(ThePreferred)).end_time
    /\ ~InBreak(ThePreferred.min, Val(RecordOn(ThePreferred)))
    /\ ret.error = ""
    /\ requests # {}

\* C10: when the expiration computation returns None creation reports an
\* error and stores nothing, so every stored request has an expiration.
C10_NoAbsentExpiration ==
    op = "create" =>
        /\ set_request_expiration_datetime(TheRequest, doctor_schedule) = None =>
              (ret.error # "" /\ requests = {})
        /\ \A r \in requests : r.request_expiration_datetime # None

====
